---- MODULE Spec2Model ----
(***************************************************************************)
(* Live evaluation / submission core of pariksha-3d-guardian.              *)
(*                                                                         *)
(*  - useLiveEvaluation (Session Store, Answer Store, change reconciler,   *)
(*    fetchData) against the durable store and its change feed;            *)
(*  - useTestSubmission (submitAnswer, submitTest) against the durable     *)
(*    store.                                                               *)
(*                                                                         *)
(* The durable store is a set of rows per table; every request to it is    *)
(* one atomic step at the server, and the client continues in a later      *)
(* step (the await).                                                       *)
(***************************************************************************)
EXTENDS Integers, Sequences, FiniteSets, TLC

\* ---------------------------------------------------------------- bounds
MaxCommits == 2
MaxFetches == 2
MaxSwitch == 1
MaxRedeliver == 1
MaxCalls == 2
MaxCreates == 3
MaxGrades == 2
MaxMon == 3

\* -------------------------------------------------------------- universe
Tests == {"t1", "t2"}
Students == {"u1", "u2"}
SessionIds == {"s1", "s2"}
AnswerIds == {"a1", "a2", "a3", "a4"}
Questions == {"q1", "q2"}
Texts == {"x", "y"}
Graders == {"g1"}
NULL == "null"
FeedStatuses == {"completed"}
FeedStudents == {"u1"}
FeedQuestions == {"q1"}
FeedTexts == {"x"}
NoId == "none"

VARIABLES
  dbSessions,    \* durable table test_sessions: set of rows
  dbAnswers,     \* durable table answers: set of rows
  usedS,         \* session ids ever generated
  usedA,         \* answer ids ever generated
  commits,       \* number of writes committed by other clients
  testId,        \* the testId prop of useLiveEvaluation
  sessions,      \* useState<LiveSession[]>
  answers,       \* useState<LiveAnswer[]>
  sessJoined,    \* session channel subscription established
  ansJoined,     \* answer channel subscription established
  sessQueue,     \* events of the session channel not yet delivered
  ansQueue,      \* events of the answer channel not yet delivered
  redelivered,   \* number of duplicate deliveries so far
  fetches,       \* the fetchData calls started so far
  lookups,       \* secondary lookups of session INSERT handlers in flight
  switches,      \* number of testId changes so far
  calls,         \* the submitTest / submitAnswer call of each client
  isSubmitting,  \* useState(false) of each client's useTestSubmission
  last,          \* the call that returned most recently
  returned,      \* number of calls that have returned
  faulted,       \* a lookup of submitAnswer or getOrCreateSession has
                 \* failed so far
  now,           \* the clock read by new Date()
  constrained,   \* the store enforces uniqueness of (test_id, student_id)
                 \* and of (session_id, question_id)
  creates,       \* the getOrCreateSession call of each client
  created,       \* number of getOrCreateSession calls that have ended
  grades,        \* the gradeAnswer call of the evaluator
  logs,          \* durable table monitoring_logs, in insertion order
  mon,           \* the latest call of the warning / monitoring workflow
  view,          \* session statuses shown by the monitoring dashboard
  user,          \* useState<User | null> of AuthProvider: <<id, role>>
  authSession,   \* useState<Session | null> of AuthProvider: the user id
  stored,        \* localStorage entry 'pariksha_user'
  profiles,      \* fetchUserProfile calls in flight
  authCall,      \* the latest login / logout call
  page           \* the EvaluateTest page

dbVars == <<dbSessions, dbAnswers, usedS, usedA>>
feedVars == <<commits, testId, sessions, answers, sessJoined, ansJoined,
              sessQueue, ansQueue, redelivered, fetches, lookups, switches>>
subVars == <<calls, isSubmitting, last, returned, faulted, now>>
extVars == <<constrained, creates, created, grades>>
monVars == <<logs, mon, view>>
authVars == <<user, authSession, stored, profiles, authCall, page>>
vars == <<dbVars, feedVars, subVars, extVars, monVars, authVars>>

\* ------------------------------------------------------------- rows
SessionRowNegative(id, t, u, st, started) ==
  [id |-> id, test_id |-> t, student_id |-> u, status |-> st,
   started_at |-> started, submitted_at |-> 0, total_warnings |-> -1,
   tab_switch_count |-> 0, fullscreen_exit_count |-> 0]

\* A test_sessions row. Timestamps are clock values, 0 standing for null.
SessionRow(id, t, u, st, started) ==
  [id |-> id, test_id |-> t, student_id |-> u, status |-> st,
   started_at |-> started, submitted_at |-> 0, total_warnings |-> 0,
   tab_switch_count |-> 0, fullscreen_exit_count |-> 0]

\* An answers row. marks_awarded -1 and graded_at 0 stand for null;
\* is_correct is "true", "false" or null.
AnswerRow(id, s, q, txt) ==
  [id |-> id, session_id |-> s, question_id |-> q, student_answer |-> txt,
   marks_awarded |-> -1, is_correct |-> NULL, graded_by |-> NULL,
   graded_at |-> 0]

\* The profiles row joined through student_id.
Profile(u) == [full_name |-> u, email |-> u]

\* The elements of a set of rows as a sequence, in id order.
RECURSIVE RowsInOrder(_, _)
RowsInOrder(rows, ids) ==
  IF ids = <<>> THEN <<>>
  ELSE LET here == {r \in rows : r.id = Head(ids)}
       IN  (IF here = {} THEN <<>> ELSE <<CHOOSE r \in here : TRUE>>)
           \o RowsInOrder(rows, Tail(ids))

SessionOrder == <<"s1", "s2">>
AnswerOrder == <<"a1", "a2", "a3", "a4">>

\* { ...a, ...b }: the fields of b override those of a.
Spread(a, b) ==
  [f \in (DOMAIN a) \cup (DOMAIN b) |-> IF f \in DOMAIN b THEN b[f] ELSE a[f]]

Ids(store) == {store[i].id : i \in DOMAIN store}
Has(store, id) == id \in Ids(store)

\* ------------------------------------------------ reconciler (pure part)
\* mappedSessions / the record appended by the INSERT branch.
WithStudent(row) == Spread(row, [student |-> Profile(row.student_id)])

\* setSessions(prev => [...prev, { ...data, student: data.profiles }])
SessionInsert(prev, data) == Append(prev, WithStudent(data))

SessionUpdateReplace(prev, new) ==
  [i \in DOMAIN prev |-> IF prev[i].id = new.id THEN new ELSE prev[i]]

\* setSessions(prev => prev.map(s => s.id === new.id ? {...s, ...new} : s))
SessionUpdate(prev, new) ==
  [i \in DOMAIN prev |->
     IF prev[i].id = new.id THEN Spread(prev[i], new) ELSE prev[i]]

SessionDeleteAll(prev, id) == <<>>

\* setSessions(prev => prev.filter(s => s.id !== old.id))
SessionDelete(prev, id) == SelectSeq(prev, LAMBDA s : s.id # id)

\* setAnswers(prev => [...prev, payload.new])
AnswerInsert(prev, new) == Append(prev, new)

\* setAnswers(prev => prev.map(a => a.id === new.id ? {...a, ...new} : a))
AnswerUpdate(prev, new) ==
  [i \in DOMAIN prev |->
     IF prev[i].id = new.id THEN Spread(prev[i], new) ELSE prev[i]]

\* setAnswers(prev => prev.filter(a => a.id !== old.id))
AnswerDelete(prev, id) == SelectSeq(prev, LAMBDA a : a.id # id)

\* The answer channel handler applied to one payload.
ApplyAnswerEvent(prev, e) ==
  IF e.op = "INSERT" THEN AnswerInsert(prev, e.new[1])
  ELSE IF e.op = "UPDATE" THEN AnswerUpdate(prev, e.new[1])
  ELSE IF e.op = "DELETE" THEN AnswerDelete(prev, e.id)
  ELSE prev

\* The session channel handler applied to one payload; data is what the
\* secondary lookup of the INSERT branch returned (<<>> for null).
ApplySessionEvent(prev, e, data) ==
  IF e.op = "INSERT"
    THEN (IF data # <<>> THEN SessionInsert(prev, data[1]) ELSE prev)
  ELSE IF e.op = "UPDATE" THEN SessionUpdate(prev, e.new[1])
  ELSE IF e.op = "DELETE" THEN SessionDelete(prev, e.id)
  ELSE prev

\* A feed payload: new is <<row>> for INSERT and UPDATE, <<>> for DELETE.
Event(op, id, new) == [op |-> op, id |-> id, new |-> new]

\* .eq('id', id).single(): the row, or null when there is none.
SingleSession(id) ==
  LET m == {r \in dbSessions : r.id = id}
  IN  IF Cardinality(m) = 1 THEN <<CHOOSE r \in m : TRUE>> ELSE <<>>

\* --------------------------------------- durable store and change feed
\* supabase_realtime publishes test_sessions changes; the session channel
\* is filtered by test_id=eq.testId.
PublishSession(e, t) ==
  sessQueue' = IF sessJoined /\ t = testId THEN Append(sessQueue, e)
               ELSE sessQueue

\* supabase_realtime publishes answers changes; the answer channel has no
\* filter.
PublishAnswer(e) ==
  ansQueue' = IF ansJoined THEN Append(ansQueue, e) ELSE ansQueue

\* The id the store generates for the next row (gen_random_uuid(): never
\* one that was used before).
RECURSIVE FirstFree(_, _)
FirstFree(order, used) ==
  IF order = <<>> THEN NoId
  ELSE IF Head(order) \notin used THEN Head(order)
  ELSE FirstFree(Tail(order), used)

FreshSessionId == FirstFree(SessionOrder, usedS)
FreshAnswerId == FirstFree(AnswerOrder, usedA)

\* Another client creates a session (getOrCreateSession's insert).
CommitInsertSession(id, t, u) ==
  /\ commits < MaxCommits
  /\ id \in SessionIds \ usedS
  /\ LET row == SessionRow(id, t, u, "active", 1)
     IN  /\ dbSessions' = dbSessions \cup {row}
         /\ PublishSession(Event("INSERT", id, <<row>>), t)
  /\ usedS' = usedS \cup {id}
  /\ commits' = commits + 1
  /\ UNCHANGED <<dbAnswers, usedA, testId, sessions, answers, sessJoined,
                 ansJoined, ansQueue, redelivered, fetches, lookups,
                 switches, subVars,
                 extVars, monVars, authVars>>

\* Another client changes the status of a session.
CommitUpdateSession(old, st) ==
  /\ commits < MaxCommits
  /\ old \in dbSessions
  /\ st # old.status
  /\ LET row == [old EXCEPT !.status = st]
     IN  /\ dbSessions' = (dbSessions \ {old}) \cup {row}
         /\ PublishSession(Event("UPDATE", old.id, <<row>>), old.test_id)
  /\ commits' = commits + 1
  /\ UNCHANGED <<dbAnswers, usedS, usedA, testId, sessions, answers,
                 sessJoined, ansJoined, ansQueue, redelivered, fetches,
                 lookups, switches, subVars,
                 extVars, monVars, authVars>>

\* A session row that has no answers is deleted.
CommitDeleteSession(old) ==
  /\ commits < MaxCommits
  /\ old \in dbSessions
  /\ {a \in dbAnswers : a.session_id = old.id} = {}
  /\ dbSessions' = dbSessions \ {old}
  /\ PublishSession(Event("DELETE", old.id, <<>>), old.test_id)
  /\ commits' = commits + 1
  /\ UNCHANGED <<dbAnswers, usedS, usedA, testId, sessions, answers,
                 sessJoined, ansJoined, ansQueue, redelivered, fetches,
                 lookups, switches, subVars,
                 extVars, monVars, authVars>>

\* Another client inserts an answer (submitAnswer's insert).
CommitInsertAnswer(id, sid, q, txt) ==
  /\ commits < MaxCommits
  /\ id \in AnswerIds \ usedA
  /\ \E r \in dbSessions : r.id = sid
  /\ LET row == AnswerRow(id, sid, q, txt)
     IN  /\ dbAnswers' = dbAnswers \cup {row}
         /\ PublishAnswer(Event("INSERT", id, <<row>>))
  /\ usedA' = usedA \cup {id}
  /\ commits' = commits + 1
  /\ UNCHANGED <<dbSessions, usedS, testId, sessions, answers, sessJoined,
                 ansJoined, sessQueue, redelivered, fetches, lookups,
                 switches, subVars,
                 extVars, monVars, authVars>>

\* Another client rewrites an answer's text (submitAnswer's update).
CommitUpdateAnswer(old, txt) ==
  /\ commits < MaxCommits
  /\ old \in dbAnswers
  /\ txt # old.student_answer
  /\ LET row == [old EXCEPT !.student_answer = txt]
     IN  /\ dbAnswers' = (dbAnswers \ {old}) \cup {row}
         /\ PublishAnswer(Event("UPDATE", old.id, <<row>>))
  /\ commits' = commits + 1
  /\ UNCHANGED <<dbSessions, usedS, usedA, testId, sessions, answers,
                 sessJoined, ansJoined, sessQueue, redelivered, fetches,
                 lookups, switches, subVars,
                 extVars, monVars, authVars>>

\* An answer row is deleted.
CommitDeleteAnswer(old) ==
  /\ commits < MaxCommits
  /\ old \in dbAnswers
  /\ dbAnswers' = dbAnswers \ {old}
  /\ PublishAnswer(Event("DELETE", old.id, <<>>))
  /\ commits' = commits + 1
  /\ UNCHANGED <<dbSessions, usedS, usedA, testId, sessions, answers,
                 sessJoined, ansJoined, sessQueue, redelivered, fetches,
                 lookups, switches, subVars,
                 extVars, monVars, authVars>>

\* ------------------------------------------------------- useLiveEvaluation
\* fetchData up to its first await: the sessions request is in flight.
NewFetch(t) == [tid |-> t, pc |-> "sessReq", data |-> <<>>]

\* refetch: fetchData called again from the dashboard.
Refetch ==
  /\ Len(fetches) < MaxFetches
  /\ fetches' = Append(fetches, NewFetch(testId))
  /\ UNCHANGED <<dbVars, commits, testId, sessions, answers, sessJoined,
                 ansJoined, sessQueue, ansQueue, redelivered, lookups,
                 switches, subVars,
                 extVars, monVars, authVars>>

\* The server answers .from('test_sessions').select(...).eq('test_id', tid).
FetchSessionsServer(i) ==
  /\ i \in DOMAIN fetches
  /\ fetches[i].pc = "sessReq"
  /\ LET rows == {r \in dbSessions : r.test_id = fetches[i].tid}
     IN  fetches' = [fetches EXCEPT ![i].pc = "sessResp",
                                    ![i].data = RowsInOrder(rows, SessionOrder)]
  /\ UNCHANGED <<dbVars, commits, testId, sessions, answers, sessJoined,
                 ansJoined, sessQueue, ansQueue, redelivered, lookups,
                 switches, subVars,
                 extVars, monVars, authVars>>

\* sessionError or answerError: thrown, caught, toast; nothing is set.
FetchError(i) ==
  /\ i \in DOMAIN fetches
  /\ fetches[i].pc \in {"sessReq", "ansReq"}
  /\ fetches' = [fetches EXCEPT ![i].pc = "done", ![i].data = <<>>]
  /\ UNCHANGED <<dbVars, commits, testId, sessions, answers, sessJoined,
                 ansJoined, sessQueue, ansQueue, redelivered, lookups,
                 switches, subVars,
                 extVars, monVars, authVars>>

\* setSessions(mappedSessions); then the answers request when there are
\* sessions.
FetchSessionsApply(i) ==
  /\ i \in DOMAIN fetches
  /\ fetches[i].pc = "sessResp"
  /\ LET data == fetches[i].data
     IN  /\ sessions' = [k \in DOMAIN data |-> WithStudent(data[k])]
         /\ fetches' = [fetches EXCEPT
                          ![i].pc = IF Len(data) > 0 THEN "ansReq" ELSE "done"]
  /\ UNCHANGED <<dbVars, commits, testId, answers, sessJoined, ansJoined,
                 sessQueue, ansQueue, redelivered, lookups, switches, subVars,
                 extVars, monVars, authVars>>

\* The server answers .from('answers').select('*').in('session_id', ids).
FetchAnswersServer(i) ==
  /\ i \in DOMAIN fetches
  /\ fetches[i].pc = "ansReq"
  /\ LET sids == Ids(fetches[i].data)
         rows == {a \in dbAnswers : a.session_id \in sids}
     IN  fetches' = [fetches EXCEPT ![i].pc = "ansResp",
                                    ![i].data = RowsInOrder(rows, AnswerOrder)]
  /\ UNCHANGED <<dbVars, commits, testId, sessions, answers, sessJoined,
                 ansJoined, sessQueue, ansQueue, redelivered, lookups,
                 switches, subVars,
                 extVars, monVars, authVars>>

\* setAnswers(answerData || [])
FetchAnswersApply(i) ==
  /\ i \in DOMAIN fetches
  /\ fetches[i].pc = "ansResp"
  /\ answers' = fetches[i].data
  /\ fetches' = [fetches EXCEPT ![i].pc = "done", ![i].data = <<>>]
  /\ UNCHANGED <<dbVars, commits, testId, sessions, sessJoined, ansJoined,
                 sessQueue, ansQueue, redelivered, lookups, switches, subVars,
                 extVars, monVars, authVars>>

\* testId changes: the effect cleanup removes both channels and the effect
\* runs again (fetchData, two new channels). The stores are kept.
ChangeTestId(t) ==
  /\ switches < MaxSwitch
  /\ Len(fetches) < MaxFetches
  /\ t # testId
  /\ testId' = t
  /\ fetches' = Append(fetches, NewFetch(t))
  /\ sessJoined' = FALSE
  /\ ansJoined' = FALSE
  /\ sessQueue' = <<>>
  /\ ansQueue' = <<>>
  /\ switches' = switches + 1
  /\ UNCHANGED <<dbVars, commits, sessions, answers, redelivered, lookups,
                 subVars,
                 extVars, monVars, authVars>>

\* .subscribe() of the session channel is acknowledged.
JoinSessionChannel ==
  /\ ~sessJoined
  /\ sessJoined' = TRUE
  /\ UNCHANGED <<dbVars, commits, testId, sessions, answers, ansJoined,
                 sessQueue, ansQueue, redelivered, fetches, lookups,
                 switches, subVars,
                 extVars, monVars, authVars>>

\* .subscribe() of the answer channel is acknowledged.
JoinAnswerChannel ==
  /\ ~ansJoined
  /\ ansJoined' = TRUE
  /\ UNCHANGED <<dbVars, commits, testId, sessions, answers, sessJoined,
                 sessQueue, ansQueue, redelivered, fetches, lookups,
                 switches, subVars,
                 extVars, monVars, authVars>>

\* The session channel callback runs for the oldest payload. The INSERT
\* branch stops at its await with the secondary lookup in flight; the other
\* branches run to the end. With again the payload stays queued (the feed
\* delivers at least once). tid is the testId of the effect run whose
\* callback this is.
DeliverSession(again) ==
  /\ sessQueue # <<>>
  /\ again => redelivered < MaxRedeliver
  /\ LET e == Head(sessQueue)
     IN  /\ IF e.op = "INSERT"
              THEN /\ lookups' = lookups \cup {[id |-> e.id, tid |-> testId,
                                                pc |-> "req", data |-> <<>>]}
                   /\ UNCHANGED sessions
              ELSE /\ sessions' = ApplySessionEvent(sessions, e, <<>>)
                   /\ UNCHANGED lookups
  /\ sessQueue' = IF again THEN sessQueue ELSE Tail(sessQueue)
  /\ redelivered' = IF again THEN redelivered + 1 ELSE redelivered
  /\ UNCHANGED <<dbVars, commits, testId, answers, sessJoined, ansJoined,
                 ansQueue, fetches, switches, subVars,
                 extVars, monVars, authVars>>

\* The server answers the secondary lookup .eq('id', id).single(); with
\* fail the request fails and data is null.
LookupServer(l, fail) ==
  /\ l \in lookups
  /\ l.pc = "req"
  /\ lookups' = (lookups \ {l}) \cup
       {[l EXCEPT !.pc = "resp",
                  !.data = IF fail THEN <<>> ELSE SingleSession(l.id)]}
  /\ UNCHANGED <<dbVars, commits, testId, sessions, answers, sessJoined,
                 ansJoined, sessQueue, ansQueue, redelivered, fetches,
                 switches, subVars,
                 extVars, monVars, authVars>>

\* The INSERT branch after its await: if (data) setSessions(append).
LookupApply(l) ==
  /\ l \in lookups
  /\ l.pc = "resp"
  /\ sessions' = ApplySessionEvent(sessions, Event("INSERT", l.id, <<>>),
                                   l.data)
  /\ lookups' = lookups \ {l}
  /\ UNCHANGED <<dbVars, commits, testId, answers, sessJoined, ansJoined,
                 sessQueue, ansQueue, redelivered, fetches, switches, subVars,
                 extVars, monVars, authVars>>

\* The answer channel callback runs for the oldest payload.
DeliverAnswer(again) ==
  /\ ansQueue # <<>>
  /\ again => redelivered < MaxRedeliver
  /\ answers' = ApplyAnswerEvent(answers, Head(ansQueue))
  /\ ansQueue' = IF again THEN ansQueue ELSE Tail(ansQueue)
  /\ redelivered' = IF again THEN redelivered + 1 ELSE redelivered
  /\ UNCHANGED <<dbVars, commits, testId, sessions, sessJoined, ansJoined,
                 sessQueue, fetches, lookups, switches, subVars,
                 extVars, monVars, authVars>>

\* ------------------------------------------------------- specifications
Clients == {"c1", "c2"}

\* No submitTest / submitAnswer call is running.
IdleCall ==
  [op |-> "none", sess |-> NULL, answers |-> <<>>, forced |-> FALSE,
   pc |-> "idle", tasks |-> <<>>, sessionError |-> FALSE, at |-> 0,
   result |-> "none"]

\* What the caller has of a call that returned: its arguments, the value
\* it returned, and whether all its answer writes succeeded.
Returned(call, result) ==
  [op |-> call.op, sess |-> call.sess, answers |-> call.answers,
   forced |-> call.forced, result |-> result,
   ok |-> \A q \in DOMAIN call.tasks : call.tasks[q].ok]

NoCall == Returned(IdleCall, "none")

\* No getOrCreateSession call is running.
IdleCreate ==
  [pc |-> "idle", test |-> NULL, student |-> NULL, existing |-> <<>>,
   outcome |-> "none", session |-> NoId]

\* No gradeAnswer call is running; n calls have returned.
IdleGrade(n) ==
  [pc |-> "idle", answerId |-> NoId, marks |-> 0, graderId |-> NULL,
   matched |-> FALSE, error |-> FALSE, result |-> FALSE, n |-> n]

\* No updateSessionWarnings, logMonitoringEvent, terminateStudent or
\* allowContinue call has been made; n counts the calls made.
IdleMon(n) ==
  [op |-> "none", sess |-> NULL, data |-> <<>>, error |-> FALSE,
   result |-> "none", n |-> n, prev |-> <<"none", NULL>>]

InitSubmission ==
  /\ logs = <<>>
  /\ mon = IdleMon(0)
  /\ view = [id \in SessionIds |-> NULL]
  /\ creates = [c \in Clients |-> IdleCreate]
  /\ created = 0
  /\ grades = IdleGrade(0)
  /\ calls = [c \in Clients |-> IdleCall]
  /\ isSubmitting = [c \in Clients |-> FALSE]
  /\ last = NoCall
  /\ returned = 0
  /\ faulted = FALSE
  /\ now = 1
  /\ user = <<>>
  /\ authSession = NULL
  /\ stored = <<>>
  /\ profiles = {}
  /\ authCall = [op |-> "none", pc |-> "idle", identifier |-> NULL,
                 password |-> NULL, role |-> NULL, hosted |-> "none",
                 result |-> "none", n |-> 0]
  /\ page = [route |-> "login", test |-> NULL, isLoading |-> TRUE,
             due |-> FALSE, loads |-> {}, issued |-> 0, n |-> 0]

\* useLiveEvaluation(testId) has just been mounted: the effect has called
\* fetchData and created the two channels; the durable store holds one
\* session of the test.
InitFeed ==
  /\ dbSessions = {SessionRow("s1", "t1", "u1", "active", 1)}
  /\ usedS = {"s1"}
  /\ dbAnswers = {}
  /\ usedA = {}
  /\ commits = 0
  /\ testId = "t1"
  /\ sessions = <<>>
  /\ answers = <<>>
  /\ sessJoined = FALSE
  /\ ansJoined = FALSE
  /\ sessQueue = <<>>
  /\ ansQueue = <<>>
  /\ redelivered = 0
  /\ fetches = <<NewFetch("t1")>>
  /\ lookups = {}
  /\ switches = 0
  /\ constrained = FALSE
  /\ InitSubmission

NextFeed ==
  \/ \E t \in Tests, u \in FeedStudents :
       CommitInsertSession(FreshSessionId, t, u)
  \/ \E old \in dbSessions, st \in FeedStatuses : CommitUpdateSession(old, st)
  \/ \E old \in dbSessions : CommitDeleteSession(old)
  \/ \E sid \in SessionIds, q \in FeedQuestions, txt \in FeedTexts :
       CommitInsertAnswer(FreshAnswerId, sid, q, txt)
  \/ \E old \in dbAnswers, txt \in Texts : CommitUpdateAnswer(old, txt)
  \/ \E old \in dbAnswers : CommitDeleteAnswer(old)
  \/ Refetch
  \/ \E i \in 1..MaxFetches : FetchSessionsServer(i)
  \/ \E i \in 1..MaxFetches : FetchError(i)
  \/ \E i \in 1..MaxFetches : FetchSessionsApply(i)
  \/ \E i \in 1..MaxFetches : FetchAnswersServer(i)
  \/ \E i \in 1..MaxFetches : FetchAnswersApply(i)
  \/ \E t \in Tests : ChangeTestId(t)
  \/ JoinSessionChannel
  \/ JoinAnswerChannel
  \/ \E again \in BOOLEAN : DeliverSession(again)
  \/ \E l \in lookups, fail \in BOOLEAN : LookupServer(l, fail)
  \/ \E l \in lookups : LookupApply(l)
  \/ \E again \in BOOLEAN : DeliverAnswer(again)

SpecFeed == InitFeed /\ [][NextFeed]_vars

\* ------------------------------------------------------ useTestSubmission
\* The answers argument of submitTest: question id -> answer text.
AnswerMaps == UNION {[D -> Texts] : D \in SUBSET Questions}

\* One submitAnswer call: at its lookup, at its write, or returned (ok is
\* the value it returned); found is existingAnswer.id, NoId for null.
NewTask == [pc |-> "lookup", found |-> NoId, ok |-> FALSE]

Running == {c \in Clients : calls[c].pc # "idle"}

SubmitStatusValueSwapped(forced) == IF forced THEN "completed" ELSE "terminated"

\* forced ? 'terminated' : 'completed'
SubmitStatusValue(forced) == IF forced THEN "terminated" ELSE "completed"

\* submitTest up to its first await: setIsSubmitting(true) and one
\* submitAnswer started per entry of answers.
StartSubmitTest(c, sid, ans, forced) ==
  /\ calls[c].pc = "idle"
  /\ returned + Cardinality(Running) < MaxCalls
  /\ isSubmitting' = [isSubmitting EXCEPT ![c] = TRUE]
  /\ calls' = [calls EXCEPT ![c] =
       [IdleCall EXCEPT !.op = "submitTest", !.sess = sid, !.answers = ans,
                        !.forced = forced, !.pc = "answers",
                        !.tasks = [q \in DOMAIN ans |-> NewTask]]]
  /\ UNCHANGED <<dbVars, feedVars, last, returned, faulted, now, extVars, monVars, authVars>>

\* submitAnswer called on its own, up to its first await.
StartSubmitAnswer(c, sid, q, txt) ==
  /\ calls[c].pc = "idle"
  /\ returned + Cardinality(Running) < MaxCalls
  /\ calls' = [calls EXCEPT ![c] =
       [IdleCall EXCEPT !.op = "submitAnswer", !.sess = sid,
                        !.answers = [k \in {q} |-> txt], !.pc = "answers",
                        !.tasks = [k \in {q} |-> NewTask]]]
  /\ UNCHANGED <<dbVars, feedVars, isSubmitting, last, returned, faulted, now,
                 extVars, monVars, authVars>>

ExistingAnswerNever(sid, q, fail) == NoId

\* existingAnswer of .eq('session_id', ..).eq('question_id', ..).single():
\* the id of the row when exactly one matches, else null; null as well
\* when the request fails. The error is not read.
ExistingAnswer(sid, q, fail) ==
  LET m == {a \in dbAnswers : a.session_id = sid /\ a.question_id = q}
  IN  IF ~fail /\ Cardinality(m) = 1 THEN (CHOOSE a \in m : TRUE).id ELSE NoId

UpdatedAnswerKept(a, txt) == a

\* .update({ student_answer: answer, updated_at }) applied to a row.
UpdatedAnswer(a, txt) == [a EXCEPT !.student_answer = txt]

SubmitResultAlwaysTrue(sessionError) == "true"

\* return true, or return false from the catch when sessionError was thrown.
SubmitResult(sessionError) == IF sessionError THEN "false" ELSE "true"

\* The server answers the lookup by (session_id, question_id) with
\* .single(): data is the row when exactly one matches, else null; with
\* fail the request fails and data is null as well. The error is not read.
AnswerLookup(c, q, fail) ==
  /\ calls[c].pc = "answers"
  /\ q \in DOMAIN calls[c].tasks
  /\ calls[c].tasks[q].pc = "lookup"
  /\ calls' = [calls EXCEPT
       ![c].tasks[q].pc = "write",
       ![c].tasks[q].found = ExistingAnswer(calls[c].sess, q, fail)]
  /\ faulted' = (faulted \/ fail)
  /\ UNCHANGED <<dbVars, feedVars, isSubmitting, last, returned, now, extVars, monVars, authVars>>

\* The insert of a second row for (session_id, question_id) is rejected by
\* the store when it enforces the uniqueness the design asks of it.
AnswerConflict(sid, q) ==
  /\ constrained
  /\ \E a \in dbAnswers : a.session_id = sid /\ a.question_id = q

\* The update of the existing answer, or the insert of a new one, at the
\* server, and the return of submitAnswer: true, or false when the write
\* failed (the error is thrown and caught).
AnswerWrite(c, q, fail) ==
  /\ calls[c].pc = "answers"
  /\ q \in DOMAIN calls[c].tasks
  /\ calls[c].tasks[q].pc = "write"
  /\ LET t == calls[c].tasks[q]
         txt == calls[c].answers[q]
         error == fail \/ (t.found = NoId /\ AnswerConflict(calls[c].sess, q))
     IN  /\ IF error
              THEN UNCHANGED <<dbAnswers, usedA>>
            ELSE IF t.found # NoId
              THEN /\ dbAnswers' =
                        {IF a.id = t.found THEN UpdatedAnswer(a, txt)
                         ELSE a : a \in dbAnswers}
                   /\ UNCHANGED usedA
            ELSE /\ FreshAnswerId # NoId
                 /\ dbAnswers' = dbAnswers \cup
                      {AnswerRow(FreshAnswerId, calls[c].sess, q, txt)}
                 /\ usedA' = usedA \cup {FreshAnswerId}
         /\ calls' = [calls EXCEPT ![c].tasks[q].pc = "done",
                                   ![c].tasks[q].ok = ~error]
  /\ UNCHANGED <<dbSessions, usedS, feedVars, isSubmitting, last, returned,
                 faulted, now, extVars, monVars, authVars>>

Settled(c) == \A q \in DOMAIN calls[c].tasks : calls[c].tasks[q].pc = "done"

\* After await Promise.all(answerPromises): the status update at the
\* server. With fail it returns sessionError, which is thrown and caught
\* (return false); else the row gets the status and submitted_at (return
\* true). The values the promises resolved to are not read.
SubmitStatus(c, fail) ==
  /\ calls[c].op = "submitTest"
  /\ calls[c].pc = "answers"
  /\ Settled(c)
  /\ IF fail
       THEN UNCHANGED <<dbSessions, now>>
       ELSE /\ dbSessions' =
                 {IF r.id = calls[c].sess
                    THEN [r EXCEPT !.status = SubmitStatusValue(calls[c].forced),
                                   !.submitted_at = now]
                    ELSE r : r \in dbSessions}
            /\ now' = now + 1
  /\ calls' = [calls EXCEPT ![c].pc = "returning",
                            ![c].sessionError = fail,
                            ![c].at = IF fail THEN 0 ELSE now,
                            ![c].result = SubmitResult(fail)]
  /\ UNCHANGED <<dbAnswers, usedS, usedA, feedVars, isSubmitting, last,
                 returned, faulted,
                 extVars, monVars, authVars>>

SubmitReturnKeepsFlag(c) ==
  /\ calls[c].op = "submitTest"
  /\ calls[c].pc = "returning"
  /\ last' = Returned(calls[c], calls[c].result)
  /\ returned' = returned + 1
  /\ calls' = [calls EXCEPT ![c] = IdleCall]
  /\ UNCHANGED <<dbVars, feedVars, isSubmitting, faulted, now, extVars, monVars, authVars>>

\* finally { setIsSubmitting(false) } and the return of submitTest.
SubmitReturn(c) ==
  /\ calls[c].op = "submitTest"
  /\ calls[c].pc = "returning"
  /\ isSubmitting' = [isSubmitting EXCEPT ![c] = FALSE]
  /\ last' = Returned(calls[c], calls[c].result)
  /\ returned' = returned + 1
  /\ calls' = [calls EXCEPT ![c] = IdleCall]
  /\ UNCHANGED <<dbVars, feedVars, faulted, now, extVars, monVars, authVars>>

\* The return of a submitAnswer called on its own.
AnswerReturn(c) ==
  /\ calls[c].op = "submitAnswer"
  /\ calls[c].pc = "answers"
  /\ Settled(c)
  /\ last' = Returned(calls[c],
       IF \A q \in DOMAIN calls[c].tasks : calls[c].tasks[q].ok
         THEN "true" ELSE "false")
  /\ returned' = returned + 1
  /\ calls' = [calls EXCEPT ![c] = IdleCall]
  /\ UNCHANGED <<dbVars, feedVars, isSubmitting, faulted, now, extVars, monVars, authVars>>

\* ------------------------------------------------- reconciler properties
\* C1: for every feed event e and every store state, applying e twice in
\* a row leaves the Session Store and the Answer Store as applying e once
\* does. Stated for every payload waiting in a channel, applied to the
\* current stores (the secondary lookup reads the current durable row).
EventsIdempotent ==
  /\ \A i \in DOMAIN ansQueue :
       LET e == ansQueue[i]
           once == ApplyAnswerEvent(answers, e)
       IN  ApplyAnswerEvent(once, e) = once
  /\ \A i \in DOMAIN sessQueue :
       LET e == sessQueue[i]
           data == SingleSession(e.id)
           once == ApplySessionEvent(sessions, e, data)
       IN  ApplySessionEvent(once, e, data) = once

NoDup(store) ==
  \A i, j \in DOMAIN store : store[i].id = store[j].id => i = j

\* C2: after any sequence of fetches and feed events no two records of the
\* Session Store share an id and no two records of the Answer Store share
\* an id.
StoreIdsUnique == NoDup(sessions) /\ NoDup(answers)

\* C3: an UPDATE event for an id that is not in the store is treated as an
\* insert with partial data: after the handler the store has a record with
\* that id.
UpdateOfAbsentInserts ==
  [][/\ (/\ ansQueue # <<>>
         /\ Head(ansQueue).op = "UPDATE"
         /\ ~Has(answers, Head(ansQueue).id)
         /\ \E again \in BOOLEAN : DeliverAnswer(again))
        => Has(answers', Head(ansQueue).id)
     /\ (/\ sessQueue # <<>>
         /\ Head(sessQueue).op = "UPDATE"
         /\ ~Has(sessions, Head(sessQueue).id)
         /\ \E again \in BOOLEAN : DeliverSession(again))
        => Has(sessions', Head(sessQueue).id)]_vars

\* C4: for an INSERT event and a later-committed UPDATE event of the same
\* row, the store after both is the same whichever is delivered first, and
\* the record holds the UPDATE's field values. Stated for every such pair
\* waiting in a channel, applied to the current stores.
InsertUpdateConverge ==
  /\ \A i, j \in DOMAIN ansQueue :
       LET ins == ansQueue[i]
           upd == ansQueue[j]
       IN  (i < j /\ ins.op = "INSERT" /\ upd.op = "UPDATE" /\ ins.id = upd.id
            /\ ~Has(answers, ins.id))
           => LET a == ApplyAnswerEvent(ApplyAnswerEvent(answers, ins), upd)
                  b == ApplyAnswerEvent(ApplyAnswerEvent(answers, upd), ins)
              IN  /\ a = b
                  /\ \E k \in DOMAIN b : b[k] = upd.new[1]
  /\ \A i, j \in DOMAIN sessQueue :
       LET ins == sessQueue[i]
           upd == sessQueue[j]
           data == SingleSession(ins.id)
       IN  (i < j /\ ins.op = "INSERT" /\ upd.op = "UPDATE" /\ ins.id = upd.id
            /\ ~Has(sessions, ins.id) /\ data = upd.new)
           => LET a == ApplySessionEvent(
                         ApplySessionEvent(sessions, ins, data), upd, <<>>)
                  b == ApplySessionEvent(
                         ApplySessionEvent(sessions, upd, <<>>), ins, data)
              IN  /\ a = b
                  /\ \E k \in DOMAIN b : b[k] = WithStudent(upd.new[1])

\* C5: a fetch or a secondary lookup started before the teardown (for
\* another testId than the current one) writes nothing into the stores
\* when it completes.
StaleResultsDiscarded ==
  [][/\ \A i \in DOMAIN fetches :
          (fetches[i].tid # testId
           /\ (FetchSessionsApply(i) \/ FetchAnswersApply(i)))
          => UNCHANGED <<sessions, answers>>
     /\ \A l \in lookups :
          (l.tid # testId /\ LookupApply(l)) => UNCHANGED <<sessions, answers>>
    ]_vars

\* The student's browser: the session exists (getOrCreateSession has
\* returned it), no answer has been written yet, and the dashboard hook is
\* not mounted.
InitSubmit ==
  /\ dbSessions = {SessionRow("s1", "t1", "u1", "active", 1)}
  /\ usedS = {"s1"}
  /\ dbAnswers = {}
  /\ usedA = {}
  /\ commits = 0
  /\ testId = "t1"
  /\ sessions = <<>>
  /\ answers = <<>>
  /\ sessJoined = FALSE
  /\ ansJoined = FALSE
  /\ sessQueue = <<>>
  /\ ansQueue = <<>>
  /\ redelivered = 0
  /\ fetches = <<>>
  /\ lookups = {}
  /\ switches = 0
  /\ constrained = FALSE
  /\ InitSubmission

\* One client whose calls follow one another: a call starts when the
\* previous one has returned.
SeqClients == {"c1"}

NextSubmit ==
  \/ \E c \in SeqClients, r \in dbSessions, ans \in AnswerMaps,
        forced \in BOOLEAN :
       Running = {} /\ StartSubmitTest(c, r.id, ans, forced)
  \/ \E c \in SeqClients, r \in dbSessions, q \in Questions, txt \in Texts :
       Running = {} /\ StartSubmitAnswer(c, r.id, q, txt)
  \/ \E c \in Clients, q \in Questions, fail \in BOOLEAN :
       AnswerLookup(c, q, fail)
  \/ \E c \in Clients, q \in Questions, fail \in BOOLEAN :
       AnswerWrite(c, q, fail)
  \/ \E c \in Clients, fail \in BOOLEAN : SubmitStatus(c, fail)
  \/ \E c \in Clients : SubmitReturn(c)
  \/ \E c \in Clients : AnswerReturn(c)

SpecSubmit == InitSubmit /\ [][NextSubmit]_vars

\* ------------------------------------------------- submission properties
AllOk(call) == \A q \in DOMAIN call.tasks : call.tasks[q].ok

PairRows(sid, q) ==
  {a \in dbAnswers : a.session_id = sid /\ a.question_id = q}

\* C6: submitTest returns false whenever at least one of its answer writes
\* failed (the other answer writes having been attempted all the same).
PartialFailureSurfaced ==
  \A c \in Clients :
    (calls[c].op = "submitTest" /\ calls[c].pc = "returning"
     /\ ~AllOk(calls[c]))
    => (calls[c].result = "false" /\ Settled(c))

StatusFailureKeepsAnswers ==
  [][\A c \in Clients :
       (calls[c].pc = "answers" /\ calls'[c].pc = "returning"
        /\ calls'[c].sessionError /\ AllOk(calls[c]))
       => /\ dbSessions' = dbSessions
          /\ dbAnswers' = dbAnswers
          /\ calls'[c].result = "false"
          /\ \A q \in DOMAIN calls[c].answers :
               \E a \in dbAnswers' :
                 /\ a.session_id = calls[c].sess
                 /\ a.question_id = q
                 /\ a.student_answer = calls[c].answers[q]]_vars

C8Witness ==
  \E c \in Clients :
    /\ calls[c].op = "submitTest" /\ calls[c].pc = "returning"
    /\ calls[c].sessionError /\ AllOk(calls[c])
    /\ calls[c].result = "false"
    /\ DOMAIN calls[c].answers = Questions
    /\ \E r \in dbSessions : r.id = calls[c].sess /\ r.status = "active"

\* The running call of c repeats the submitTest that returned last, which
\* was served in full.
IsRetry(c) ==
  /\ calls[c].op = "submitTest"
  /\ last.op = "submitTest" /\ last.result = "true" /\ last.ok
  /\ calls[c].sess = last.sess
  /\ calls[c].answers = last.answers
  /\ calls[c].forced = last.forced

\* The session statuses and the answer rows of the durable store.
Durable == <<{[id |-> r.id, status |-> r.status] : r \in dbSessions}, dbAnswers>>

IsSecondAnswer(c, q) ==
  /\ calls[c].op = "submitAnswer"
  /\ DOMAIN calls[c].answers = {q}
  /\ calls[c].tasks[q].pc = "done" /\ calls[c].tasks[q].ok
  /\ last.op = "submitAnswer" /\ last.ok
  /\ last.sess = calls[c].sess
  /\ DOMAIN last.answers = {q}
  /\ last.answers[q] # calls[c].answers[q]

InitConc ==
  /\ dbSessions = {SessionRow("s1", "t1", "u1", "active", 1)}
  /\ usedS = {"s1"}
  /\ dbAnswers = {}
  /\ usedA = {}
  /\ commits = 0
  /\ testId = "t1"
  /\ sessions = <<>>
  /\ answers = <<>>
  /\ sessJoined = FALSE
  /\ ansJoined = FALSE
  /\ sessQueue = <<>>
  /\ ansQueue = <<>>
  /\ redelivered = 0
  /\ fetches = <<>>
  /\ lookups = {}
  /\ switches = 0
  /\ constrained \in BOOLEAN
  /\ InitSubmission

NextConc ==
  \/ \E c \in Clients, r \in dbSessions, ans \in AnswerMaps,
        forced \in BOOLEAN : StartSubmitTest(c, r.id, ans, forced)
  \/ \E c \in Clients, r \in dbSessions, q \in Questions, txt \in Texts :
       StartSubmitAnswer(c, r.id, q, txt)
  \/ \E c \in Clients, q \in Questions : AnswerLookup(c, q, FALSE)
  \/ \E c \in Clients, q \in Questions, fail \in BOOLEAN :
       AnswerWrite(c, q, fail)
  \/ \E c \in Clients, fail \in BOOLEAN : SubmitStatus(c, fail)
  \/ \E c \in Clients : SubmitReturn(c)
  \/ \E c \in Clients : AnswerReturn(c)

SpecConc == InitConc /\ [][NextConc]_vars

\* C11: after any interleaving of concurrent submitAnswer calls the
\* durable store holds at most one answer row per (session_id,
\* question_id) pair.
OneAnswerPerPair ==
  \A a, b \in dbAnswers :
    (a.session_id = b.session_id /\ a.question_id = b.question_id) => a = b

\* ------------------------------------------------------ getOrCreateSession
Creating == {c \in Clients : creates[c].pc # "idle"}

PairSessions(t, u) == {r \in dbSessions : r.test_id = t /\ r.student_id = u}

ExistingSessionNever(t, u, fail) == <<>>

\* existingSession of .eq('test_id', ..).eq('student_id', ..).single(): the
\* row when exactly one matches, else null; null as well when the request
\* fails. fetchError is not read.
ExistingSession(t, u, fail) ==
  IF ~fail /\ Cardinality(PairSessions(t, u)) = 1
    THEN <<CHOOSE r \in PairSessions(t, u) : TRUE>> ELSE <<>>

\* The insert of a second row for (test_id, student_id) is rejected by the
\* store when it enforces the uniqueness the design asks of it.
SessionConflict(t, u) == constrained /\ PairSessions(t, u) # {}

\* getOrCreateSession up to its first await.
StartCreate(c, t, u) ==
  /\ creates[c].pc = "idle"
  /\ created + Cardinality(Creating) < MaxCreates
  /\ creates' = [creates EXCEPT ![c] =
       [IdleCreate EXCEPT !.pc = "lookup", !.test = t, !.student = u]]
  /\ UNCHANGED <<dbVars, feedVars, subVars, constrained, created, grades, monVars, authVars>>

\* The server answers the lookup; if (existingSession) return it, else the
\* insert request is sent.
CreateLookup(c, fail) ==
  /\ creates[c].pc = "lookup"
  /\ LET data == ExistingSession(creates[c].test, creates[c].student, fail)
     IN  creates' = [creates EXCEPT
           ![c].existing = data,
           ![c].pc = IF data # <<>> THEN "done" ELSE "insert",
           ![c].outcome = IF data # <<>> THEN "returned" ELSE "none",
           ![c].session = IF data # <<>> THEN data[1].id ELSE NoId]
  /\ faulted' = (faulted \/ fail)
  /\ UNCHANGED <<dbVars, feedVars, calls, isSubmitting, last, returned, now,
                 constrained, created, grades, monVars, authVars>>

\* The insert at the server: the new row with status 'active' and
\* started_at is returned, or createError is thrown to the caller.
CreateInsert(c, fail) ==
  /\ creates[c].pc = "insert"
  /\ LET t == creates[c].test
         u == creates[c].student
         id == FreshSessionId
         row == SessionRow(id, t, u, "active", now)
     IN  IF fail \/ SessionConflict(t, u)
           THEN /\ creates' = [creates EXCEPT ![c].pc = "done",
                                              ![c].outcome = "threw"]
                /\ UNCHANGED <<dbSessions, usedS, sessQueue>>
           ELSE /\ id # NoId
                /\ dbSessions' = dbSessions \cup {row}
                /\ PublishSession(Event("INSERT", id, <<row>>), t)
                /\ usedS' = usedS \cup {id}
                /\ creates' = [creates EXCEPT ![c].pc = "done",
                                              ![c].outcome = "returned",
                                              ![c].session = id]
  /\ UNCHANGED <<dbAnswers, usedA, commits, testId, sessions, answers,
                 sessJoined, ansJoined, ansQueue, redelivered, fetches,
                 lookups, switches, subVars, constrained, created, grades, monVars, authVars>>

\* The caller has the session (or the error).
CreateEnd(c) ==
  /\ creates[c].pc = "done"
  /\ creates' = [creates EXCEPT ![c] = IdleCreate]
  /\ created' = created + 1
  /\ UNCHANGED <<dbVars, feedVars, subVars, constrained, grades, monVars, authVars>>

\* The store before any student has opened the test.
InitCreate ==
  /\ dbSessions = {}
  /\ usedS = {}
  /\ dbAnswers = {}
  /\ usedA = {}
  /\ commits = 0
  /\ testId = "t1"
  /\ sessions = <<>>
  /\ answers = <<>>
  /\ sessJoined = FALSE
  /\ ansJoined = FALSE
  /\ sessQueue = <<>>
  /\ ansQueue = <<>>
  /\ redelivered = 0
  /\ fetches = <<>>
  /\ lookups = {}
  /\ switches = 0
  /\ constrained \in BOOLEAN
  /\ InitSubmission

SubmittedStatuses == {"completed", "terminated"}

\* One student's browser calling getOrCreateSession again and again (page
\* loads), while the session's status is changed by submissions.
NextCreateSeq ==
  \/ \E c \in SeqClients, t \in Tests, u \in FeedStudents :
       Creating = {} /\ StartCreate(c, t, u)
  \/ \E c \in Clients, fail \in BOOLEAN : CreateLookup(c, fail)
  \/ \E c \in Clients, fail \in BOOLEAN : CreateInsert(c, fail)
  \/ \E c \in Clients : CreateEnd(c)
  \/ \E old \in dbSessions, st \in SubmittedStatuses :
       CommitUpdateSession(old, st)

SpecCreateSeq == InitCreate /\ [][NextCreateSeq]_vars

\* Two browsers calling getOrCreateSession at the same time; every request
\* reaches the store.
NextCreate ==
  \/ \E c \in Clients, t \in Tests, u \in FeedStudents : StartCreate(c, t, u)
  \/ \E c \in Clients : CreateLookup(c, FALSE)
  \/ \E c \in Clients : CreateInsert(c, FALSE)
  \/ \E c \in Clients : CreateEnd(c)

SpecCreate == InitCreate /\ [][NextCreate]_vars

\* C12: getOrCreateSession called repeatedly in sequence creates at most
\* one session for the pair (lookups being served): the first call creates
\* it with status 'active' and started_at set, every later call returns
\* that session without writing, whatever its status.
CreateOnce ==
  /\ [](~faulted =>
          /\ \A t \in Tests, u \in Students :
               Cardinality(PairSessions(t, u)) <= 1
          /\ \A c \in Clients :
               (creates[c].pc = "done" /\ creates[c].outcome = "returned")
               => \E r \in PairSessions(creates[c].test, creates[c].student) :
                    r.id = creates[c].session)
  /\ [][\A c \in Clients :
          /\ (creates[c].pc = "lookup" /\ creates'[c] # creates[c]
              /\ PairSessions(creates[c].test, creates[c].student) # {}
              /\ ~faulted')
             => /\ dbSessions' = dbSessions
                /\ creates'[c].outcome = "returned"
          /\ (creates[c].pc = "insert" /\ creates'[c].outcome = "returned")
             => \E r \in dbSessions' \ dbSessions :
                  /\ r.id = creates'[c].session
                  /\ r.test_id = creates[c].test
                  /\ r.student_id = creates[c].student
                  /\ r.status = "active"
                  /\ r.started_at > 0]_vars

C12Witness ==
  \E c \in Clients :
    /\ creates[c].pc = "done" /\ creates[c].outcome = "returned"
    /\ creates[c].existing # <<>>
    /\ creates[c].existing[1].status = "completed"
    /\ created >= 1
    /\ ~faulted

\* C13: with the uniqueness constraint on (test_id, student_id), after two
\* concurrent getOrCreateSession(t, s) calls exactly one session exists
\* for (t, s) and both calls have returned it (neither has failed).
ConcurrentCreateBothReturn ==
  \A c1, c2 \in Clients :
    (/\ c1 # c2 /\ constrained
     /\ creates[c1].pc = "done" /\ creates[c2].pc = "done"
     /\ creates[c1].test = creates[c2].test
     /\ creates[c1].student = creates[c2].student)
    => /\ Cardinality(PairSessions(creates[c1].test, creates[c1].student)) = 1
       /\ creates[c1].outcome = "returned"
       /\ creates[c2].outcome = "returned"
       /\ creates[c1].session = creates[c2].session

\* ------------------------------------------------------------ gradeAnswer
Marks == {0, 1, 3}
GradeTargets == {"a1", "a3"}

GradedAnswerAlwaysCorrect(a, marks, graderId, at) ==
  [a EXCEPT !.marks_awarded = marks, !.is_correct = "true",
            !.graded_by = graderId, !.graded_at = at]

\* The row after .update({marks_awarded, is_correct, graded_by, graded_at}).
GradedAnswer(a, marks, graderId, at) ==
  [a EXCEPT !.marks_awarded = marks,
            !.is_correct = IF marks > 0 THEN "true" ELSE "false",
            !.graded_by = graderId, !.graded_at = at]

GradeResultAlwaysTrue(error) == TRUE

\* if (error) throw error ... return true; catch: return false.
GradeResult(error) == ~error

\* gradeAnswer up to its await: the update request is sent.
StartGrade(answerId, marks, graderId) ==
  /\ grades.pc = "idle"
  /\ grades.n < MaxGrades
  /\ grades' = [grades EXCEPT !.pc = "write", !.answerId = answerId,
                              !.marks = marks, !.graderId = graderId]
  /\ UNCHANGED <<dbVars, feedVars, subVars, constrained, creates, created, monVars, authVars>>

\* The update .eq('id', answerId) at the server: every matching row is
\* rewritten (none is not an error), or the request fails as a whole.
GradeWrite(fail) ==
  /\ grades.pc = "write"
  /\ LET hit == {a \in dbAnswers : a.id = grades.answerId}
         new == {GradedAnswer(a, grades.marks, grades.graderId, now) :
                   a \in hit}
     IN  /\ IF fail
              THEN UNCHANGED <<dbAnswers, ansQueue>>
              ELSE /\ dbAnswers' = (dbAnswers \ hit) \cup new
                   /\ IF new # {} /\ new # hit
                        THEN PublishAnswer(Event("UPDATE", grades.answerId,
                                                 <<CHOOSE r \in new : TRUE>>))
                        ELSE UNCHANGED ansQueue
         /\ grades' = [grades EXCEPT !.pc = "done", !.matched = (hit # {}),
                                     !.error = fail,
                                     !.result = GradeResult(fail)]
  /\ UNCHANGED <<dbSessions, usedS, usedA, commits, testId, sessions, answers,
                 sessJoined, ansJoined, sessQueue, redelivered, fetches,
                 lookups, switches, subVars, constrained, creates, created, monVars, authVars>>

\* The caller has the boolean.
GradeReturn ==
  /\ grades.pc = "done"
  /\ grades' = IdleGrade(grades.n + 1)
  /\ UNCHANGED <<dbVars, feedVars, subVars, constrained, creates, created, monVars, authVars>>

\* ----------------------------------------------------------- getLiveStats
RECURSIVE Count(_, _)
\* seq.filter(..).length, P being the set of elements the filter keeps.
Count(seq, P) ==
  IF seq = <<>> THEN 0
  ELSE (IF Head(seq) \in P THEN 1 ELSE 0) + Count(Tail(seq), P)

Elems(seq) == {seq[i] : i \in DOMAIN seq}

IsActiveOnlyActive(s) == s.status = "active"

IsActiveOnlyInProgress(s) == s.status = "in_progress"

IsActive(s) == s.status = "active" \/ s.status = "in_progress"

IsSubmitted(s) == s.status = "completed" \/ s.status = "submitted"

IsTerminated(s) == s.status = "terminated"

IsGraded(a) == a.graded_by # NULL

PendingGradingTotal(totalAnswers, gradedAnswers) == totalAnswers

PendingGrading(totalAnswers, gradedAnswers) == totalAnswers - gradedAnswers

getSessionAnswers(sessionId) ==
  SelectSeq(answers, LAMBDA a : a.session_id = sessionId)

getLiveStats ==
  LET totalAnswers == Len(answers)
      gradedAnswers == Count(answers, {a \in Elems(answers) : IsGraded(a)})
  IN  [totalSessions |-> Len(sessions),
       activeSessions |->
         Count(sessions, {x \in Elems(sessions) : IsActive(x)}),
       submittedSessions |->
         Count(sessions, {x \in Elems(sessions) : IsSubmitted(x)}),
       terminatedSessions |->
         Count(sessions, {x \in Elems(sessions) : IsTerminated(x)}),
       totalAnswers |-> totalAnswers,
       gradedAnswers |-> gradedAnswers,
       pendingGrading |-> PendingGrading(totalAnswers, gradedAnswers)]

\* The status values a session row can carry.
SessionStatuses ==
  {"active", "in_progress", "completed", "submitted", "terminated", "pending"}

\* The evaluator's dashboard has just been mounted on a test with two
\* sessions, each with one answer.
InitGrade ==
  /\ \E st1, st2 \in SessionStatuses :
       dbSessions = {SessionRow("s1", "t1", "u1", st1, 1),
                     SessionRow("s2", "t1", "u2", st2, 1)}
  /\ usedS = {"s1", "s2"}
  /\ dbAnswers = {AnswerRow("a1", "s1", "q1", "x"),
                  AnswerRow("a2", "s2", "q1", "x")}
  /\ usedA = {"a1", "a2"}
  /\ commits = 0
  /\ testId = "t1"
  /\ sessions = <<>>
  /\ answers = <<>>
  /\ sessJoined = FALSE
  /\ ansJoined = FALSE
  /\ sessQueue = <<>>
  /\ ansQueue = <<>>
  /\ redelivered = 0
  /\ fetches = <<NewFetch("t1")>>
  /\ lookups = {}
  /\ switches = 0
  /\ constrained = FALSE
  /\ InitSubmission

NextGrade ==
  \/ \E answerId \in GradeTargets, marks \in Marks, graderId \in Graders :
       StartGrade(answerId, marks, graderId)
  \/ \E fail \in BOOLEAN : GradeWrite(fail)
  \/ GradeReturn
  \/ \E i \in 1..MaxFetches : FetchSessionsServer(i)
  \/ \E i \in 1..MaxFetches : FetchSessionsApply(i)
  \/ \E i \in 1..MaxFetches : FetchAnswersServer(i)
  \/ \E i \in 1..MaxFetches : FetchAnswersApply(i)
  \/ JoinAnswerChannel
  \/ \E again \in BOOLEAN : DeliverAnswer(again)

SpecGrade == InitGrade /\ [][NextGrade]_vars

\* C14: gradeAnswer(answerId, marks, graderId) writes marks_awarded =
\* marks, is_correct = (marks > 0), graded_by = graderId and graded_at to
\* the answer row; no graded answer has marks_awarded > 0 with is_correct
\* false (nor marks_awarded = 0 with is_correct true).
GradeWritesFields ==
  /\ [](\A a \in dbAnswers :
          /\ ~(a.marks_awarded > 0 /\ a.is_correct = "false")
          /\ ~(a.marks_awarded = 0 /\ a.is_correct = "true"))
  /\ [][(grades.pc = "write" /\ grades'.pc = "done" /\ ~grades'.error)
        => \A a \in dbAnswers :
             a.id = grades.answerId
             => \E b \in dbAnswers' :
                  /\ b.id = a.id
                  /\ b.session_id = a.session_id
                  /\ b.question_id = a.question_id
                  /\ b.student_answer = a.student_answer
                  /\ b.marks_awarded = grades.marks
                  /\ (grades.marks = 0 => b.is_correct = "false")
                  /\ (grades.marks > 0 => b.is_correct = "true")
                  /\ b.graded_by = grades.graderId
                  /\ b.graded_at > 0]_vars

C14Witness ==
  /\ grades.pc = "done" /\ grades.matched /\ ~grades.error
  /\ grades.marks = 0
  /\ \E a \in dbAnswers :
       a.id = grades.answerId /\ a.is_correct = "false"
                              /\ a.graded_by = grades.graderId

\* C15: gradeAnswer with an answerId that matches no answer row returns
\* false to the caller.
GradeOfAbsentFails ==
  (grades.pc = "done" /\ ~grades.matched) => grades.result = FALSE

\* C16: gradeAnswer issues one write to the durable store per call and
\* never changes the local stores itself; when the write fails it returns
\* false and the answers table is as it was.
GradeSingleWrite ==
  /\ [][grades' # grades => (answers' = answers /\ sessions' = sessions)]_vars
  /\ [][dbAnswers' # dbAnswers
        => (grades.pc = "write" /\ grades'.pc = "done")]_vars
  /\ [][grades.pc = "done" => grades'.pc \in {"done", "idle"}]_vars
  /\ [][(grades.pc = "write" /\ grades'.pc = "done" /\ grades'.error)
        => (dbAnswers' = dbAnswers /\ grades'.result = FALSE)]_vars

C16Witness ==
  /\ grades.pc = "done" /\ grades.error /\ grades.matched
  /\ grades.result = FALSE
  /\ \E a \in dbAnswers : a.id = grades.answerId /\ a.graded_by = NULL

\* C17: getLiveStats() always has gradedAnswers + pendingGrading =
\* totalAnswers, 0 <= gradedAnswers <= totalAnswers, and totalAnswers is the
\* number of records in the Answer Store.
StatsAddUp ==
  LET st == getLiveStats
  IN  /\ st.gradedAnswers + st.pendingGrading = st.totalAnswers
      /\ 0 <= st.gradedAnswers
      /\ st.gradedAnswers <= st.totalAnswers
      /\ st.totalAnswers = Cardinality(DOMAIN answers)

C17Witness ==
  /\ getLiveStats.gradedAnswers >= 1
  /\ getLiveStats.totalAnswers > getLiveStats.gradedAnswers

\* C18: getLiveStats() counts as active exactly the sessions with status
\* active or in_progress, as submitted those with completed or submitted,
\* as terminated those with terminated, as graded the answers with non-null
\* graded_by; the session classes are disjoint and their sum is at most
\* totalSessions.
StatsClassify ==
  LET st == getLiveStats
      act == {i \in DOMAIN sessions :
                sessions[i].status \in {"active", "in_progress"}}
      sub == {i \in DOMAIN sessions :
                sessions[i].status \in {"completed", "submitted"}}
      ter == {i \in DOMAIN sessions : sessions[i].status = "terminated"}
      gra == {i \in DOMAIN answers : answers[i].graded_by # NULL}
  IN  /\ st.activeSessions = Cardinality(act)
      /\ st.submittedSessions = Cardinality(sub)
      /\ st.terminatedSessions = Cardinality(ter)
      /\ st.gradedAnswers = Cardinality(gra)
      /\ st.totalSessions = Cardinality(DOMAIN sessions)
      /\ act \cap sub = {} /\ act \cap ter = {} /\ sub \cap ter = {}
      /\ st.activeSessions + st.submittedSessions + st.terminatedSessions
           <= st.totalSessions

C18Witness ==
  /\ \E i \in DOMAIN sessions : sessions[i].status = "in_progress"
  /\ \E i \in DOMAIN sessions : sessions[i].status = "pending"
  /\ getLiveStats.gradedAnswers >= 1

\* --------------------------------------- students arriving at a live test
\* The dashboard is mounted on a test nobody has opened yet.
InitFresh ==
  /\ dbSessions = {}
  /\ usedS = {}
  /\ dbAnswers = {}
  /\ usedA = {}
  /\ commits = 0
  /\ testId = "t1"
  /\ sessions = <<>>
  /\ answers = <<>>
  /\ sessJoined = FALSE
  /\ ansJoined = FALSE
  /\ sessQueue = <<>>
  /\ ansQueue = <<>>
  /\ redelivered = 0
  /\ fetches = <<NewFetch("t1")>>
  /\ lookups = {}
  /\ switches = 0
  /\ constrained = FALSE
  /\ InitSubmission

NextFresh ==
  \/ \E c \in SeqClients, t \in Tests, u \in Students : StartCreate(c, t, u)
  \/ \E c \in Clients : CreateLookup(c, FALSE)
  \/ \E c \in Clients : CreateInsert(c, FALSE)
  \/ \E c \in Clients : CreateEnd(c)
  \/ \E i \in 1..MaxFetches : FetchSessionsServer(i)
  \/ \E i \in 1..MaxFetches : FetchSessionsApply(i)
  \/ \E i \in 1..MaxFetches : FetchAnswersServer(i)
  \/ \E i \in 1..MaxFetches : FetchAnswersApply(i)
  \/ JoinSessionChannel
  \/ DeliverSession(FALSE)
  \/ \E l \in lookups : LookupServer(l, FALSE)
  \/ \E l \in lookups : LookupApply(l)

SpecFresh == InitFresh /\ [][NextFresh]_vars

\* The stores hold exactly one session, as getOrCreateSession created it,
\* and no answers.
OneFreshSession ==
  /\ Len(sessions) = 1
  /\ answers = <<>>
  /\ sessions[1].id \in usedS
  /\ sessions[1].submitted_at = 0

\* C19 (as stated): with exactly one fresh session and no answers,
\* getLiveStats() returns totalSessions = 1 and zero for every other count.
FreshStatsAllZero ==
  OneFreshSession
  => getLiveStats =
       [totalSessions |-> 1, activeSessions |-> 0, submittedSessions |-> 0,
        terminatedSessions |-> 0, totalAnswers |-> 0, gradedAnswers |-> 0,
        pendingGrading |-> 0]

\* C19 (amended): with exactly one fresh session and no answers,
\* getLiveStats() returns totalSessions = 1, activeSessions = 1 and zero
\* for every other count.
FreshStatsOneActive ==
  OneFreshSession
  => getLiveStats =
       [totalSessions |-> 1, activeSessions |-> 1, submittedSessions |-> 0,
        terminatedSessions |-> 0, totalAnswers |-> 0, gradedAnswers |-> 0,
        pendingGrading |-> 0]

C19Witness ==
  /\ OneFreshSession
  /\ created >= 1
  /\ \E r \in dbSessions : r.id = sessions[1].id

\* C20: every record of the Answer Store belongs to a session of the
\* subscribed test: while testId is unchanged, no answer in the store has
\* the session_id of a session of another test (so that totalAnswers would
\* be the sum of getSessionAnswers(id).length over the test's sessions).
AnswersBelongToTest ==
  switches = 0
  => \A i \in DOMAIN answers : \A r \in dbSessions :
       r.id = answers[i].session_id => r.test_id = testId

\* ------------------------------------------- warning / monitoring workflow
WarningFields == {"total_warnings", "tab_switch_count", "fullscreen_exit_count"}
WarningValues == {0, 1, 2}

\* The warningData argument: each counter is optional.
WarningData == UNION {[D -> WarningValues] : D \in SUBSET WarningFields}

EventTypes == {"tab_switch", "fullscreen_exit"}
EventData == {NULL, "d"}

WarningsAppliedReset(r, data) ==
  [f \in DOMAIN r |->
     IF f \in DOMAIN data THEN data[f]
     ELSE IF f \in WarningFields THEN 0 ELSE r[f]]

\* The row after .update(warningData): the fields present are written.
WarningsApplied(r, data) ==
  [f \in DOMAIN r |-> IF f \in DOMAIN data THEN data[f] ELSE r[f]]

MonResultAlwaysTrue(error) == "true"

\* if (error) throw error; return true; catch: return false.
MonResult(error) == IF error THEN "false" ELSE "true"

MonCall(op, sid, data, error, result) ==
  [op |-> op, sess |-> sid, data |-> data, error |-> error,
   result |-> result, n |-> mon.n + 1, prev |-> <<mon.op, mon.sess>>]

\* updateSessionWarnings(sessionId, warningData): the update .eq('id', ..)
\* at the store and the value returned.
UpdateSessionWarnings(sid, data, fail) ==
  /\ mon.n < MaxMon
  /\ dbSessions' = IF fail THEN dbSessions
                   ELSE {IF r.id = sid THEN WarningsApplied(r, data) ELSE r :
                           r \in dbSessions}
  /\ mon' = MonCall("updateSessionWarnings", sid, data, fail, MonResult(fail))
  /\ UNCHANGED <<dbAnswers, usedS, usedA, feedVars, subVars, extVars, logs,
                 view, authVars>>

LogEntryNoData(sid, type, data) ==
  [session_id |-> sid, event_type |-> type, event_data |-> NULL]

\* The row inserted into monitoring_logs.
LogEntry(sid, type, data) ==
  [session_id |-> sid, event_type |-> type, event_data |-> data]

\* logMonitoringEvent(sessionId, eventType, eventData): the insert at the
\* store and the value returned.
LogMonitoringEvent(sid, type, data, fail) ==
  /\ mon.n < MaxMon
  /\ logs' = IF fail THEN logs ELSE Append(logs, LogEntry(sid, type, data))
  /\ mon' = MonCall("logMonitoringEvent", sid,
                    [event_type |-> type, event_data |-> data], fail,
                    MonResult(fail))
  /\ UNCHANGED <<dbVars, feedVars, subVars, extVars, view, authVars>>

\* The monitoring dashboard shows Terminate for a session it sees as
\* in_progress and Allow Continue for one it sees as terminated.
CanTerminateAny(sid) == view[sid] # NULL

CanTerminate(sid) == view[sid] = "in_progress"
CanAllow(sid) == view[sid] = "terminated"

\* The dashboard's sessions follow the durable store of the test.
MonitorSync ==
  /\ view' = [id \in SessionIds |->
               IF \E r \in dbSessions : r.id = id /\ r.test_id = testId
                 THEN (CHOOSE r \in dbSessions : r.id = id).status
                 ELSE NULL]
  /\ view' # view
  /\ UNCHANGED <<dbVars, feedVars, subVars, extVars, logs, mon, authVars>>

WithStatusKept(r, st) == r

WithStatus(r, st) == [r EXCEPT !.status = st]

\* terminateStudent(sessionId): the session's status becomes terminated.
TerminateStudent(sid) ==
  /\ mon.n < MaxMon
  /\ CanTerminate(sid)
  /\ dbSessions' = {IF r.id = sid THEN WithStatus(r, "terminated") ELSE r :
                      r \in dbSessions}
  /\ mon' = MonCall("terminateStudent", sid, <<>>, FALSE, "true")
  /\ UNCHANGED <<dbAnswers, usedS, usedA, feedVars, subVars, extVars, logs,
                 view, authVars>>

\* allowContinue(sessionId): the session's status becomes in_progress.
AllowContinue(sid) ==
  /\ mon.n < MaxMon
  /\ CanAllow(sid)
  /\ dbSessions' = {IF r.id = sid THEN WithStatus(r, "in_progress") ELSE r :
                      r \in dbSessions}
  /\ mon' = MonCall("allowContinue", sid, <<>>, FALSE, "true")
  /\ UNCHANGED <<dbAnswers, usedS, usedA, feedVars, subVars, extVars, logs,
                 view, authVars>>

\* --------------------------------------------------- a session's life
\* The warning counters a student's page reports in this scenario.
LifeWarningData ==
  {[f \in {"total_warnings"} |-> 1],
   [f \in {"total_warnings", "tab_switch_count"} |-> 1]}

NoAnswers == [q \in {} |-> "x"]

\* Students open the test, report warnings and submit; the faculty
\* dashboard terminates and reinstates.
NextLife ==
  \/ \E c \in SeqClients, u \in Students :
       Creating = {} /\ Running = {} /\ StartCreate(c, "t1", u)
  \/ \E c \in Clients : CreateLookup(c, FALSE)
  \/ \E c \in Clients : CreateInsert(c, FALSE)
  \/ \E c \in Clients : CreateEnd(c)
  \/ \E c \in SeqClients, r \in dbSessions, forced \in BOOLEAN :
       Creating = {} /\ Running = {}
       /\ StartSubmitTest(c, r.id, NoAnswers, forced)
  \/ \E c \in Clients : SubmitStatus(c, FALSE)
  \/ \E c \in Clients : SubmitReturn(c)
  \/ \E r \in dbSessions, data \in LifeWarningData :
       UpdateSessionWarnings(r.id, data, FALSE)
  \/ MonitorSync
  \/ \E sid \in SessionIds : TerminateStudent(sid)
  \/ \E sid \in SessionIds : AllowContinue(sid)

SpecLife == InitCreate /\ [][NextLife]_vars

\* ------------------------------------------------- session status machine
LiveStatuses == {"active", "in_progress"}
Finished == {"completed", "submitted"}

\* not_started -> active/in_progress -> {completed/submitted, terminated},
\* terminated -> in_progress; completed/submitted is terminal.
AllowedEdge(a, b) ==
  \/ a = b
  \/ a = "not_started" /\ b \in LiveStatuses
  \/ a \in LiveStatuses /\ b \in LiveStatuses \cup Finished \cup {"terminated"}
  \/ a = "terminated" /\ b = "in_progress"
  \/ a \in Finished /\ b \in Finished

\* C21: the status of a session follows only the allowed edges; once it is
\* completed (or submitted) no call changes it.
StatusFollowsEdges ==
  [][\A r \in dbSessions : \A r2 \in dbSessions' :
       r2.id = r.id
       => /\ AllowedEdge(r.status, r2.status)
          /\ (r.status \in Finished => r2.status = r.status)]_vars

\* The call made in this step, if it is op on session sid.
Called(op, sid) ==
  mon'.n = mon.n + 1 /\ mon'.op = op /\ mon'.sess = sid

\* C22: terminateStudent(s) sets the status of s to terminated and
\* allowContinue(s) sets it to in_progress; for a session the dashboard
\* shows as terminated, allowContinue is available, so in_progress stays
\* reachable.
TerminationNotDeadEnd ==
  /\ [][\A sid \in SessionIds : \A r \in dbSessions' :
          r.id = sid
          => /\ Called("terminateStudent", sid) => r.status = "terminated"
             /\ Called("allowContinue", sid) => r.status = "in_progress"]_vars
  /\ [](\A r \in dbSessions :
          (r.status = "terminated" /\ view[r.id] = "terminated"
           /\ mon.n < MaxMon)
          => ENABLED AllowContinue(r.id))

C22Witness ==
  /\ mon.op = "allowContinue"
  /\ mon.prev = <<"terminateStudent", mon.sess>>
  /\ \E r \in dbSessions : r.id = mon.sess /\ r.status = "in_progress"

\* ------------------------------------------- a proctored test in progress
\* Two students are taking the test.
InitWarn ==
  /\ dbSessions = {SessionRow("s1", "t1", "u1", "active", 1),
                   SessionRow("s2", "t1", "u2", "in_progress", 1)}
  /\ usedS = {"s1", "s2"}
  /\ dbAnswers = {}
  /\ usedA = {}
  /\ commits = 0
  /\ testId = "t1"
  /\ sessions = <<>>
  /\ answers = <<>>
  /\ sessJoined = FALSE
  /\ ansJoined = FALSE
  /\ sessQueue = <<>>
  /\ ansQueue = <<>>
  /\ redelivered = 0
  /\ fetches = <<>>
  /\ lookups = {}
  /\ switches = 0
  /\ constrained = FALSE
  /\ InitSubmission

\* The first student's page reports warnings and events.
NextWarn ==
  \/ \E data \in WarningData, fail \in BOOLEAN :
       UpdateSessionWarnings("s1", data, fail)
  \/ \E type \in EventTypes, data \in EventData, fail \in BOOLEAN :
       LogMonitoringEvent("s1", type, data, fail)

SpecWarn == InitWarn /\ [][NextWarn]_vars

\* C23: updateSessionWarnings(sessionId, data) writes only the counters
\* present in data; the absent counters, the status, the timestamps and
\* every other session are unchanged; it returns true on success and false
\* on a write error.
WarningsFrame ==
  [][\A sid \in SessionIds :
       Called("updateSessionWarnings", sid)
       => /\ \A r \in dbSessions : \E r2 \in dbSessions' :
               /\ r2.id = r.id
               /\ (r.id # sid \/ mon'.error) => r2 = r
               /\ (r.id = sid /\ ~mon'.error)
                  => \A f \in DOMAIN r :
                       r2[f] = IF f \in DOMAIN mon'.data
                                 THEN mon'.data[f] ELSE r[f]
          /\ Cardinality(dbSessions') = Cardinality(dbSessions)
          /\ mon'.result = IF mon'.error THEN "false" ELSE "true"
          /\ dbAnswers' = dbAnswers
          /\ logs' = logs]_vars

C23Witness ==
  /\ mon.op = "updateSessionWarnings" /\ ~mon.error /\ mon.result = "true"
  /\ DOMAIN mon.data = {"tab_switch_count"}
  /\ \E r \in dbSessions :
       /\ r.id = mon.sess
       /\ r.tab_switch_count = mon.data["tab_switch_count"]
       /\ r.total_warnings = 2
       /\ r.status = "active"

\* C24: while a session is active its total_warnings never decreases and
\* is at least tab_switch_count + fullscreen_exit_count, under any
\* sequence of updateSessionWarnings calls.
WarningsMonotone ==
  /\ [](\A r \in dbSessions :
          r.status \in LiveStatuses
          => r.total_warnings >= r.tab_switch_count + r.fullscreen_exit_count)
  /\ [][\A r \in dbSessions : \A r2 \in dbSessions' :
          (r2.id = r.id /\ r.status \in LiveStatuses)
          => r2.total_warnings >= r.total_warnings]_vars

\* C26: logMonitoringEvent is a pure append: a successful call adds one
\* entry with the given session id, event type and data; a failed call
\* returns false and leaves the log unchanged; no step modifies or removes
\* an existing entry.
LogAppendOnly ==
  [][/\ \A i \in DOMAIN logs : i \in DOMAIN logs' /\ logs'[i] = logs[i]
     /\ logs' # logs
        => \E sid \in SessionIds : Called("logMonitoringEvent", sid)
     /\ \A sid \in SessionIds :
          Called("logMonitoringEvent", sid)
          => /\ dbSessions' = dbSessions /\ dbAnswers' = dbAnswers
             /\ IF mon'.error
                  THEN logs' = logs /\ mon'.result = "false"
                  ELSE /\ logs' = Append(logs,
                            [session_id |-> sid,
                             event_type |-> mon'.data.event_type,
                             event_data |-> mon'.data.event_data])
                       /\ mon'.result = "true"]_vars

C26Witness ==
  /\ mon.op = "logMonitoringEvent" /\ ~mon.error
  /\ Len(logs) = 2
  /\ logs[2] = [session_id |-> mon.sess, event_type |-> mon.data.event_type,
                event_data |-> "d"]

Merged(rec, new) ==
  [f \in (DOMAIN rec) \cup (DOMAIN new) |->
     IF f \in DOMAIN new THEN new[f] ELSE rec[f]]

\* after is before with the records of the given id merged with new, all
\* others, their number and their order being as they were.
MergedAt(before, after, id, new) ==
  /\ DOMAIN after = DOMAIN before
  /\ \A i \in DOMAIN before :
       IF before[i].id = id
         THEN /\ DOMAIN after[i] = (DOMAIN before[i]) \cup (DOMAIN new)
              /\ after[i] = Merged(before[i], new)
         ELSE after[i] = before[i]

\* C27: an UPDATE event for an id present in the store merges the event's
\* fields into that record: fields absent from the event (a session's
\* student identity) keep their values, every other record, the number and
\* the order of records are unchanged.
UpdateMerges ==
  [][/\ (/\ sessQueue # <<>>
         /\ Head(sessQueue).op = "UPDATE"
         /\ Has(sessions, Head(sessQueue).id)
         /\ \E again \in BOOLEAN : DeliverSession(again))
        => /\ MergedAt(sessions, sessions', Head(sessQueue).id,
                       Head(sessQueue).new[1])
           /\ \A i \in DOMAIN sessions :
                "student" \in DOMAIN sessions[i]
                => sessions'[i].student = sessions[i].student
           /\ answers' = answers
     /\ (/\ ansQueue # <<>>
         /\ Head(ansQueue).op = "UPDATE"
         /\ Has(answers, Head(ansQueue).id)
         /\ \E again \in BOOLEAN : DeliverAnswer(again))
        => /\ MergedAt(answers, answers', Head(ansQueue).id,
                       Head(ansQueue).new[1])
           /\ sessions' = sessions]_vars

\* An UPDATE of a session of the store has been handled once and is about
\* to be delivered again.
C27Witness ==
  /\ redelivered = 1 /\ ~ansJoined
  /\ sessQueue # <<>>
  /\ Head(sessQueue).op = "UPDATE"
  /\ \E i \in DOMAIN sessions :
       /\ sessions[i].id = Head(sessQueue).id
       /\ sessions[i].status = Head(sessQueue).new[1].status
       /\ sessions[i].status = "completed"
       /\ sessions[i].student = Profile(sessions[i].student_id)

RECURSIVE Without(_, _)
\* seq without its records of the given id.
Without(seq, id) ==
  IF seq = <<>> THEN <<>>
  ELSE IF Head(seq).id = id THEN Without(Tail(seq), id)
  ELSE <<Head(seq)>> \o Without(Tail(seq), id)

\* C28: a DELETE event removes the record with the event's id and nothing
\* else: the other records keep their values and order, and a DELETE for
\* an id that is not in the store leaves the store unchanged.
DeleteRemovesOnly ==
  [][/\ (/\ sessQueue # <<>>
         /\ Head(sessQueue).op = "DELETE"
         /\ \E again \in BOOLEAN : DeliverSession(again))
        => /\ sessions' = Without(sessions, Head(sessQueue).id)
           /\ ~Has(sessions, Head(sessQueue).id) => sessions' = sessions
           /\ answers' = answers
     /\ (/\ ansQueue # <<>>
         /\ Head(ansQueue).op = "DELETE"
         /\ \E again \in BOOLEAN : DeliverAnswer(again))
        => /\ answers' = Without(answers, Head(ansQueue).id)
           /\ ~Has(answers, Head(ansQueue).id) => answers' = answers
           /\ sessions' = sessions]_vars

\* A DELETE of a session has been handled once, another session is left in
\* the store, and the DELETE is about to be delivered again.
C28Witness ==
  /\ redelivered = 1 /\ ~ansJoined
  /\ sessQueue # <<>>
  /\ Head(sessQueue).op = "DELETE"
  /\ ~Has(sessions, Head(sessQueue).id)
  /\ Len(sessions) >= 1
  /\ \A r \in dbSessions : r.id # Head(sessQueue).id

\* The place of a session id in the order in which the store generates
\* ids, which is the order in which the INSERT events are published.
Arrival(id) == CHOOSE k \in DOMAIN SessionOrder : SessionOrder[k] = id

\* C29: records inserted through the feed appear in the store in event
\* arrival order: of two sessions, each once in the Session Store, the one
\* whose INSERT event arrived first is positioned first.
StoreInArrivalOrder ==
  NoDup(sessions)
  => \A i, j \in DOMAIN sessions :
       i < j => Arrival(sessions[i].id) < Arrival(sessions[j].id)

\* The fetch has completed, the session channel is established and every
\* event published so far has been delivered and handled.
FeedSettled ==
  /\ \A i \in DOMAIN fetches : fetches[i].pc = "done"
  /\ sessJoined
  /\ sessQueue = <<>>
  /\ lookups = {}

\* C30: once the initial fetch has completed and every feed event has been
\* delivered and handled, the Session Store holds exactly the test's
\* sessions with their current field values (duplicates aside).
FaithfulCache ==
  FeedSettled
  => Elems(sessions) =
       {WithStudent(r) : r \in {x \in dbSessions : x.test_id = testId}}

\* C31: a fetchData that completes without error leaves the Answer Store
\* holding exactly the answers of the fetched sessions: empty when the
\* fetch returned zero sessions, and otherwise answers of sessions of the
\* Session Store only (both stores from the same fetch).
FetchRebuildsAnswers ==
  [][\A i \in DOMAIN fetches :
       /\ (fetches[i].pc = "sessResp" /\ fetches'[i].pc = "done")
          => answers' = <<>>
       /\ (fetches[i].pc = "ansResp" /\ fetches'[i].pc = "done"
           /\ switches = 0)
          => \A k \in DOMAIN answers' :
               answers'[k].session_id \in Ids(sessions')]_vars

\* No event of the given kind for the session id is waiting in the
\* session channel.
NonePending(op, id) ==
  \A k \in DOMAIN sessQueue : ~(sessQueue[k].op = op /\ sessQueue[k].id = id)

\* C32: when the INSERT handler of a session finishes (its secondary lookup
\* has been answered) after the session's DELETE event has been delivered,
\* the Session Store does not contain that id; when it finishes after the
\* session's UPDATE events have been delivered, the record stored has the
\* updated values.
InsertHandlerSeesLaterEvents ==
  [][\A l \in lookups :
       (l.pc = "resp" /\ switches = 0 /\ LookupApply(l))
       => /\ ((\A r \in dbSessions : r.id # l.id) /\ NonePending("DELETE", l.id))
             => ~Has(sessions', l.id)
          /\ \A r \in dbSessions :
               (r.id = l.id /\ l.data # <<>> /\ NonePending("UPDATE", l.id))
               => \E k \in DOMAIN sessions' : sessions'[k] = WithStudent(r)]_vars

\* C33: getOrCreateSession never inserts a session when one already exists
\* for its (testId, studentId): a call whose lookup failed or matched more
\* than one row ends by throwing and leaves the sessions table as it was.
CreateNeverDuplicates ==
  [][\A c \in Clients :
       (/\ creates[c].pc = "insert"
        /\ creates'[c].pc = "done"
        /\ PairSessions(creates[c].test, creates[c].student) # {})
       => /\ dbSessions' = dbSessions
          /\ creates'[c].outcome = "threw"]_vars

\* ------------------------------------------- the monitoring dashboard's stats
\* The warningThreshold the dashboard is rendered with.
warningThreshold == 1

\* The sessions the dashboard shows, with the warnings of their rows.
DashboardSessions == {r \in dbSessions : view[r.id] = r.status}

activeSessions == {r \in DashboardSessions : r.status = "in_progress"}

studentsAtRisk ==
  {r \in DashboardSessions :
     r.total_warnings >= warningThreshold /\ r.status = "in_progress"}

\* C34: every session that getLiveStats counts as active (status active or
\* in_progress), a session freshly created by getOrCreateSession included,
\* is in LiveMonitoringDashboard's activeSessions, is in studentsAtRisk once
\* total_warnings >= warningThreshold, and is offered Terminate.
DashboardsAgree ==
  \A r \in DashboardSessions :
    IsActive(r)
    => /\ r \in activeSessions
       /\ CanTerminate(r.id)
       /\ r.total_warnings >= warningThreshold => r \in studentsAtRisk

\* C35: terminateStudent is issued only for a session shown as in_progress
\* and allowContinue only for one shown as terminated; the two are never
\* offered for the same session, and neither is offered for a completed,
\* submitted or not_started session.
ActionsGuarded ==
  /\ [][\A sid \in SessionIds :
          /\ Called("terminateStudent", sid) => view[sid] = "in_progress"
          /\ Called("allowContinue", sid) => view[sid] = "terminated"]_vars
  /\ [](\A sid \in SessionIds :
          /\ ~(ENABLED TerminateStudent(sid) /\ ENABLED AllowContinue(sid))
          /\ view[sid] \in {"completed", "submitted", "not_started"}
             => /\ ~ENABLED TerminateStudent(sid)
                /\ ~ENABLED AllowContinue(sid))

C35Witness ==
  /\ mon.op = "terminateStudent"
  /\ view[mon.sess] = "in_progress"
  /\ \E sid \in SessionIds : view[sid] = "completed"

\* ------------------------------------------- submitTest runs to its return
\* A student's client submitting tests, one call after the other.
\* The answers of the calls: any set of questions, one text.
LiveAnswerMaps == UNION {[D -> {"x"}] : D \in SUBSET Questions}

NextSubmitTest ==
  \/ \E c \in SeqClients, r \in dbSessions, ans \in LiveAnswerMaps,
        forced \in BOOLEAN :
       Running = {} /\ StartSubmitTest(c, r.id, ans, forced)
  \/ \E c \in Clients, q \in Questions, fail \in BOOLEAN :
       AnswerLookup(c, q, fail)
  \/ \E c \in Clients, q \in Questions, fail \in BOOLEAN :
       AnswerWrite(c, q, fail)
  \/ \E c \in Clients, fail \in BOOLEAN : SubmitStatus(c, fail)
  \/ \E c \in Clients : SubmitReturn(c)

\* Every awaited request is answered, with a result or with an error, and
\* the continuation of an answered request runs.
SubmitFairness ==
  \A c \in SeqClients :
    /\ WF_vars(\E q \in Questions, fail \in BOOLEAN : AnswerLookup(c, q, fail))
    /\ WF_vars(\E q \in Questions, fail \in BOOLEAN : AnswerWrite(c, q, fail))
    /\ WF_vars(\E fail \in BOOLEAN : SubmitStatus(c, fail))
    /\ WF_vars(SubmitReturn(c))

SpecSubmitLive == InitSubmit /\ [][NextSubmitTest]_vars /\ SubmitFairness

MaxAuthCalls == 2
MaxOpens == 2

\* The account of the hosted authentication service, with its row of
\* user_roles.
HostedUser == "h1"
HostedEmail == "h1@pariksha.edu"
HostedPassword == "hpw"
HostedRole == "faculty"

\* What the user types into the login form.
Identifiers == {"jane@faculty.edu", "h1", "ADMIN001"}
Passwords == {"123456", "hpw"}
Roles == {"faculty", "admin"}

\* identifier.includes("@") ? identifier : `${identifier}@pariksha.edu`
SignInEmail(identifier) ==
  CASE identifier = "jane@faculty.edu" -> "jane@faculty.edu"
    [] identifier = "h1" -> "h1@pariksha.edu"
    [] identifier = "ADMIN001" -> "ADMIN001@pariksha.edu"

HostedAccepts(identifier, password) ==
  SignInEmail(identifier) = HostedEmail /\ password = HostedPassword

MOCK_USERS ==
  {[id |-> "jane", email |-> "jane@faculty.edu", erpId |-> "DBUUF001",
    password |-> "123456", role |-> "faculty"],
   [id |-> "admin", email |-> "admin@pariksha.edu", erpId |-> "ADMIN001",
    password |-> "admin123", role |-> "admin"]}

MockMatches(u, identifier, password, role) ==
  /\ u.role = role
  /\ \/ (role = "admin" /\ u.email = identifier /\ u.password = password)
     \/ (role # "admin" /\ (u.email = identifier \/ u.erpId = identifier)
         /\ u.password = password)

LoginLocalNone(identifier, password, role) == <<>>

\* mockUser of loginLocal as the user it sets, <<>> when none matches.
LoginLocal(identifier, password, role) ==
  IF \E u \in MOCK_USERS : MockMatches(u, identifier, password, role)
    THEN LET u == CHOOSE u \in MOCK_USERS :
                    MockMatches(u, identifier, password, role)
         IN  <<u.id, u.role>>
    ELSE <<>>

isAuthenticated == user # <<>>

AuthReturned(call, hosted, result) ==
  [call EXCEPT !.pc = "returned", !.hosted = hosted, !.result = result,
               !.identifier = NULL, !.password = NULL, !.role = NULL,
               !.n = call.n + 1]

\* The EvaluateTest page sees a setUser: its effect depends on user, and
\* every user object is a new one.
PageSees(u) ==
  IF page.route = "evaluate" /\ (u # <<>> \/ user # <<>>)
    THEN [page EXCEPT !.due = TRUE] ELSE page

\* getSession() resolves with a session kept from an earlier visit:
\* setSession and fetchUserProfile.
RestoreSession ==
  /\ authCall.op = "none"
  /\ authSession = NULL
  /\ authSession' = HostedUser
  /\ profiles' = profiles \cup
       {[uid |-> HostedUser, pc |-> "profile", from |-> "getSession",
         call |-> 0]}
  /\ UNCHANGED <<dbVars, feedVars, subVars, extVars, monVars, user, stored,
                 authCall, page>>

\* login up to its first await.
StartLogin(identifier, password, role) ==
  /\ authCall.pc \in {"idle", "returned"}
  /\ authCall.n < MaxAuthCalls
  /\ authCall' = [op |-> "login", pc |-> "signIn",
                  identifier |-> identifier, password |-> password,
                  role |-> role, hosted |-> "none", result |-> "none",
                  n |-> authCall.n]
  /\ UNCHANGED <<dbVars, feedVars, subVars, extVars, monVars, user,
                 authSession, stored, profiles, page>>

\* signInWithPassword is answered. Accepted: the auth state listener sets
\* the session and defers a fetchUserProfile, and login awaits its own.
\* Rejected (error) or thrown: login returns loginLocal(...).
LoginSignIn(fail) ==
  /\ authCall.op = "login" /\ authCall.pc = "signIn"
  /\ IF ~fail /\ HostedAccepts(authCall.identifier, authCall.password)
       THEN /\ authSession' = HostedUser
            /\ profiles' = profiles \cup
                 {[uid |-> HostedUser, pc |-> "deferred", from |-> "listener",
                   call |-> authCall.n],
                  [uid |-> HostedUser, pc |-> "profile", from |-> "login",
                   call |-> authCall.n]}
            /\ authCall' = [authCall EXCEPT !.pc = "profile",
                                            !.hosted = "accepted"]
            /\ UNCHANGED <<user, stored, page>>
       ELSE LET mockUser == LoginLocal(authCall.identifier,
                                       authCall.password, authCall.role)
                hosted == IF fail THEN "threw" ELSE "rejected"
            IN  /\ IF mockUser # <<>>
                     THEN /\ user' = mockUser
                          /\ stored' = mockUser
                          /\ page' = PageSees(mockUser)
                          /\ authCall' = AuthReturned(authCall, hosted, "true")
                     ELSE /\ UNCHANGED <<user, stored, page>>
                          /\ authCall' = AuthReturned(authCall, hosted, "false")
                /\ UNCHANGED <<authSession, profiles>>
  /\ UNCHANGED <<dbVars, feedVars, subVars, extVars, monVars>>

\* The timer of the auth state listener fires: fetchUserProfile starts.
ProfileStart(f) ==
  /\ f \in profiles /\ f.pc = "deferred"
  /\ profiles' = (profiles \ {f}) \cup {[f EXCEPT !.pc = "profile"]}
  /\ UNCHANGED <<dbVars, feedVars, subVars, extVars, monVars, user,
                 authSession, stored, authCall, page>>

\* login resumes when the fetchUserProfile it awaits has ended: return true.
AfterProfile(f) ==
  IF f.from = "login" THEN AuthReturned(authCall, "accepted", "true")
  ELSE authCall

\* The profiles query of fetchUserProfile is answered; profileError ends
\* the call.
ProfileServer(f, fail) ==
  /\ f \in profiles /\ f.pc = "profile"
  /\ IF fail
       THEN /\ profiles' = profiles \ {f}
            /\ authCall' = AfterProfile(f)
       ELSE /\ profiles' = (profiles \ {f}) \cup {[f EXCEPT !.pc = "role"]}
            /\ UNCHANGED authCall
  /\ UNCHANGED <<dbVars, feedVars, subVars, extVars, monVars, user,
                 authSession, stored, page>>

UserDataNone(uid, fail) == <<>>

\* userData: the role of user_roles, "student" when that query gave none.
UserData(uid, fail) == <<uid, IF fail THEN "student" ELSE HostedRole>>

\* The user_roles query is answered: setUser(userData) and
\* localStorage.setItem.
ProfileRole(f, fail) ==
  /\ f \in profiles /\ f.pc = "role"
  /\ user' = UserData(f.uid, fail)
  /\ stored' = UserData(f.uid, fail)
  /\ page' = PageSees(UserData(f.uid, fail))
  /\ profiles' = profiles \ {f}
  /\ authCall' = AfterProfile(f)
  /\ UNCHANGED <<dbVars, feedVars, subVars, extVars, monVars, authSession>>

\* logout up to its await.
StartLogout ==
  /\ authCall.pc \in {"idle", "returned"}
  /\ authCall.n < MaxAuthCalls
  /\ authCall' = [op |-> "logout", pc |-> "signOut", identifier |-> NULL,
                  password |-> NULL, role |-> NULL, hosted |-> "none",
                  result |-> "none", n |-> authCall.n]
  /\ UNCHANGED <<dbVars, feedVars, subVars, extVars, monVars, user,
                 authSession, stored, profiles, page>>

\* signOut is answered (an error is caught): setUser(null),
\* setSession(null), localStorage.removeItem.
LogoutSignOut(fail) ==
  /\ authCall.op = "logout" /\ authCall.pc = "signOut"
  /\ user' = <<>>
  /\ authSession' = NULL
  /\ stored' = <<>>
  /\ page' = PageSees(<<>>)
  /\ authCall' = AuthReturned(authCall, IF fail THEN "threw" ELSE "accepted",
                              "none")
  /\ UNCHANGED <<dbVars, feedVars, subVars, extVars, monVars, profiles>>

\* ------------------------------------------- the EvaluateTest page
CanEvaluateAny(u) == TRUE

\* The negation of the guard of the effect.
CanEvaluate(u) == u # <<>> /\ (u[2] = "faculty" \/ u[2] = "admin")

\* The page after navigate(route): EvaluateTest is unmounted.
Left(route) ==
  [page EXCEPT !.route = route, !.test = NULL, !.isLoading = TRUE,
               !.due = FALSE]

\* The router shows /evaluate/:id.
OpenPage ==
  /\ page.route # "evaluate"
  /\ page.n < MaxOpens
  /\ page' = [page EXCEPT !.route = "evaluate", !.test = NULL,
                          !.isLoading = TRUE, !.due = TRUE, !.n = page.n + 1]
  /\ UNCHANGED <<dbVars, feedVars, subVars, extVars, monVars, user,
                 authSession, stored, profiles, authCall>>

\* The effect runs: navigate("/login"), or loadTestData up to its await.
PageEffect ==
  /\ page.route = "evaluate" /\ page.due
  /\ page' = IF ~CanEvaluate(user)
               THEN Left("login")
               ELSE [page EXCEPT
                       !.due = FALSE, !.isLoading = TRUE,
                       !.issued = page.issued + 1,
                       !.loads = page.loads \cup
                                   {[gen |-> page.n, k |-> page.issued + 1]}]
  /\ UNCHANGED <<dbVars, feedVars, subVars, extVars, monVars, user,
                 authSession, stored, profiles, authCall>>

LoadOutcomes == {"found", "error", "missing", "threw"}

\* The tests query of loadTestData is answered: setTest(testData), or
\* navigate("/faculty-dashboard"); finally setIsLoading(false). The state
\* setters of a page no longer mounted do nothing.
LoadApply(l, outcome) ==
  /\ l \in page.loads
  /\ page' =
       IF outcome = "found"
         THEN IF page.route = "evaluate" /\ l.gen = page.n
                THEN [page EXCEPT !.test = "t1", !.isLoading = FALSE,
                                  !.loads = page.loads \ {l}]
                ELSE [page EXCEPT !.loads = page.loads \ {l}]
         ELSE [Left("faculty-dashboard") EXCEPT !.loads = page.loads \ {l}]
  /\ UNCHANGED <<dbVars, feedVars, subVars, extVars, monVars, user,
                 authSession, stored, profiles, authCall>>

\* The evaluation dashboard is on screen.
DashboardShown ==
  page.route = "evaluate" /\ ~page.isLoading /\ page.test # NULL

NextAuth ==
  \/ RestoreSession
  \/ \E identifier \in Identifiers, password \in Passwords, role \in Roles :
       StartLogin(identifier, password, role)
  \/ \E fail \in BOOLEAN : LoginSignIn(fail)
  \/ \E f \in profiles : ProfileStart(f)
  \/ \E f \in profiles, fail \in BOOLEAN : ProfileServer(f, fail)
  \/ \E f \in profiles, fail \in BOOLEAN : ProfileRole(f, fail)
  \/ StartLogout
  \/ \E fail \in BOOLEAN : LogoutSignOut(fail)
  \/ OpenPage
  \/ PageEffect
  \/ \E l \in page.loads, outcome \in LoadOutcomes : LoadApply(l, outcome)

\* The application just loaded, nobody signed in on this page.
InitAuth == InitCreate /\ ~constrained

SpecAuth == InitAuth /\ [][NextAuth]_vars

\* C37: when hosted authentication rejects the credentials, login returns
\* false and sets no user: the local authenticator is not tried after it.
NoSilentFallback ==
  [][(authCall.op = "login" /\ authCall.pc = "signIn"
      /\ authCall'.pc = "returned" /\ authCall'.hosted = "rejected")
     => /\ authCall'.result = "false"
        /\ user' = user
        /\ stored' = stored]_vars

\* C38: once logout has returned, and until the next login or logout call,
\* user is null, isAuthenticated is false and the 'pariksha_user' entry is
\* absent, whatever fetchUserProfile calls were still in flight.
LoggedOutStaysOut ==
  (authCall.op = "logout" /\ authCall.pc = "returned")
  => /\ user = <<>>
     /\ ~isAuthenticated
     /\ stored = <<>>

\* C39: an effect run of the evaluation page for a user who is null or
\* neither faculty nor admin navigates to /login and issues no test fetch;
\* a test fetch is issued only for a faculty or admin user; and the
\* dashboard is on screen, the effect having run for the current user, only
\* for a faculty or admin user.
EvaluateGuarded ==
  /\ [][(PageEffect /\ ~(user # <<>> /\ user[2] \in {"faculty", "admin"}))
        => /\ page'.route = "login"
           /\ page'.loads = page.loads]_vars
  /\ [][page'.issued # page.issued
        => (user # <<>> /\ user[2] \in {"faculty", "admin"})]_vars
  /\ []((DashboardShown /\ ~page.due)
        => (user # <<>> /\ user[2] \in {"faculty", "admin"}))

C39Witness ==
  /\ DashboardShown /\ ~page.due
  /\ user = <<"h1", "faculty">>
  /\ page.n = 2

====
